---- MODULE Spec2Model ----
(***************************************************************************)
(* Order lifecycle of the Bakong KHQR cafe backend: POST /api/create-khqr  *)
(* and GET /api/check-payment/:orderId over the in-memory order store, in  *)
(* the three ledger-backed variants of the service (src/server.js,         *)
(* src/unnamed/part_002, src/unnamed/part_003).                            *)
(*                                                                         *)
(* Amounts are JavaScript numbers.  A number is written Num(k): the IEEE   *)
(* double nearest to the decimal k / 10^4.  Arithmetic on amounts          *)
(* (Number(), Math.round, the subtraction and the comparison with 0.0001)  *)
(* is carried out on the doubles, held as bit strings.                     *)
(***************************************************************************)
EXTENDS Integers, Sequences, FiniteSets, TLC

\* ------------------------------------------------------------------ bounds
MaxClock == 1       \* the clock runs over seconds 0..MaxClock of one day
MaxRand == 0        \* Math.random() suffixes drawn from 0..MaxRand
MaxInFlight == 2    \* handlers suspended at an await at the same time
MaxOrders == 2      \* create-khqr requests that get as far as the codec

\* ------------------------------------------------- natural numbers as bits
\* little-endian bit strings, no leading (high) zeros; <<>> is zero.
\* The operators are written without deep recursion: a 53-bit mantissa does
\* not fit a machine integer of the checker, so a number is a bit string.
MaxOf(x, y) == IF x > y THEN x ELSE y
MinOf(x, y) == IF x < y THEN x ELSE y

\* the w low bits of the machine integer n >= 0
FixedBits(n, w) == [i \in 1..w |-> (n \div (2 ^ (i - 1))) % 2]

\* the position of the highest 1 of b, 0 when there is none
TopBit(b) == Cardinality({i \in 1..Len(b) : \E j \in i..Len(b) : b[j] = 1})

Trim(b) == SubSeq(b, 1, TopBit(b))

WordBits == 30
NatToBits(n) == Trim(FixedBits(n, WordBits))

ShiftLeft(b, s) ==
    IF b = <<>> THEN <<>>
    ELSE [i \in 1..(Len(b) + s) |-> IF i <= s THEN 0 ELSE b[i - s]]

BitAt(b, i) == IF i <= Len(b) THEN b[i] ELSE 0

\* -1, 0, 1 as a < b, a = b, a > b on the bits below position n
CmpBelow(a, b, n) ==
    LET top == Cardinality({i \in 1..(n - 1) :
                              \E j \in i..(n - 1) : BitAt(a, j) # BitAt(b, j)})
    IN  IF top = 0 THEN 0
        ELSE IF BitAt(a, top) < BitAt(b, top) THEN -1 ELSE 1

CmpBits(a, b) == CmpBelow(a, b, MaxOf(Len(a), Len(b)) + 1)

\* a - b for a >= b: the borrow into bit i is 1 iff a < b on the bits below i
SubBits(a, b) ==
    Trim([i \in 1..Len(a) |->
            (2 + a[i] - BitAt(b, i)
               - (IF CmpBelow(a, b, i) < 0 THEN 1 ELSE 0)) % 2])

\* b + 1: the lowest 0 becomes 1, the 1s below it become 0
IncBits(b) ==
    LET z == 1 + Cardinality({i \in 1..Len(b) : \A j \in 1..i : b[j] = 1})
    IN  [i \in 1..MaxOf(Len(b), z) |->
            IF i < z THEN 0 ELSE IF i = z THEN 1 ELSE b[i]]

AnyOne(b) == \E i \in 1..Len(b) : b[i] = 1

\* ------------------------------------------------------------ IEEE doubles
MantissaBits == 53
DecimalScale == 10000   \* amounts are written in units of 1e-4 = 1/(16*625)
OddScale == 625
ScaleShift == 4
ChunkBits == 20         \* long division proceeds ChunkBits bits at a time
ParseChunks == 4        \* guard chunks appended below k before dividing

\* a double >= 0 is [m |-> bits, e |-> exponent], value m * 2^e;
\* zero is [m |-> <<>>, e |-> 0]
\* round-to-nearest-even of n * 2^e (sticky: a nonzero part below n was lost)
RoundToDouble(n, e, sticky) ==
    IF Len(n) <= MantissaBits THEN [m |-> n, e |-> IF n = <<>> THEN 0 ELSE e]
    ELSE LET d     == Len(n) - MantissaBits
             keep  == SubSeq(n, d + 1, Len(n))
             half  == n[d]
             below == sticky \/ AnyOne(SubSeq(n, 1, d - 1))
             up    == half = 1 /\ (below \/ keep[1] = 1)
         IN  [m |-> IF up THEN IncBits(keep) ELSE keep, e |-> e + d]

\* one step of the long division: the remainder after the next chunk
ChunkStep(r) == (r * (2 ^ ChunkBits)) % OddScale

\* remainder of k * 2^(ChunkBits * i) by OddScale, for i in 0..ParseChunks
ChunkRem(k, i) ==
    CASE i = 0 -> k % OddScale
      [] i = 1 -> ChunkStep(k % OddScale)
      [] i = 2 -> ChunkStep(ChunkStep(k % OddScale))
      [] i = 3 -> ChunkStep(ChunkStep(ChunkStep(k % OddScale)))
      [] OTHER -> ChunkStep(ChunkStep(ChunkStep(ChunkStep(k % OddScale))))

\* quotient digit i (base 2^ChunkBits, i = 1 the highest below k \div OddScale)
ChunkQuot(k, i) == (ChunkRem(k, i - 1) * (2 ^ ChunkBits)) \div OddScale

\* floor(k * 2^(ChunkBits * ParseChunks) / OddScale) as bits
ParseQuot(k) ==
    Trim([i \in 1..(ChunkBits * ParseChunks + WordBits) |->
            IF i > ChunkBits * ParseChunks
            THEN FixedBits(k \div OddScale, WordBits)[i - ChunkBits * ParseChunks]
            ELSE FixedBits(ChunkQuot(k, ParseChunks - ((i - 1) \div ChunkBits)),
                           ChunkBits)[((i - 1) % ChunkBits) + 1]])

\* the double nearest to k / 10^4, k >= 0  (a decimal literal or Number(str))
DecToDouble(k) ==
    RoundToDouble(ParseQuot(k), 0 - (ChunkBits * ParseChunks) - ScaleShift,
                  ChunkRem(k, ParseChunks) # 0)

\* Math.abs(a - b) on doubles a, b >= 0
AbsDiff(a, b) ==
    LET emin == MinOf(a.e, b.e)
        A    == ShiftLeft(a.m, a.e - emin)
        B    == ShiftLeft(b.m, b.e - emin)
        D    == IF CmpBits(A, B) >= 0 THEN SubBits(A, B) ELSE SubBits(B, A)
    IN  RoundToDouble(D, emin, FALSE)

\* a < b on doubles a, b >= 0
DoubleLess(a, b) ==
    LET emin == MinOf(a.e, b.e)
    IN  CmpBits(ShiftLeft(a.m, a.e - emin), ShiftLeft(b.m, b.e - emin)) < 0

\* the machine integer written by a short bit string
BitsToNat(b) ==
    Cardinality({n \in 1..((2 ^ Len(b)) - 1) :
                   CmpBelow(FixedBits(n, Len(b)), b, Len(b) + 1) <= 0})

\* -------------------------------------------------------- JavaScript values
Undefined == [t |-> "undefined"]
NaN == [t |-> "NaN"]
Num(k) == [t |-> "number", k |-> k]      \* the double nearest to k / 10^4
StrDec(k) == [t |-> "string", numeric |-> TRUE, k |-> k]   \* e.g. "5.0001"
StrText == [t |-> "string", numeric |-> FALSE, k |-> 0]    \* e.g. "abc"

\* ToBoolean: 0, NaN, undefined are falsy; the strings here are non-empty
Truthy(v) == CASE v.t = "undefined" -> FALSE
               [] v.t = "NaN" -> FALSE
               [] v.t = "number" -> v.k # 0
               [] OTHER -> TRUE

\* Number(v), and the implicit ToNumber of a relational comparison
ToNumber(v) == CASE v.t = "undefined" -> NaN
                 [] v.t = "NaN" -> NaN
                 [] v.t = "number" -> v
                 [] OTHER -> IF v.numeric THEN Num(v.k) ELSE NaN

\* v <= 0 ; any comparison with NaN is false
LessEqZero(v) == ToNumber(v).t = "number" /\ ToNumber(v).k <= 0

\* a || b
OrElse(a, b) == IF Truthy(a) THEN a ELSE b

\* Math.round(v) for v >= 0: the integer part of the double, plus one when the
\* fraction is at least one half
\* the amounts (in units of 1e-4) that the requests and answers below carry
KnownAmounts == {0, 4000, 10000, 50000, 50001, 50100, 107000, 110000}

RoundDouble(k) ==
    LET x    == DecToDouble(k)
        frac == 0 - x.e
        int  == IF frac <= 0 THEN ShiftLeft(x.m, x.e)
                ELSE SubSeq(x.m, frac + 1, Len(x.m))
        half == IF frac <= 0 THEN 0 ELSE BitAt(x.m, frac)
    IN  (BitsToNat(int) + half) * DecimalScale

\* the value a table of <<key, value>> pairs holds for a key
Lookup(table, key) == (CHOOSE entry \in table : entry[1] = key)[2]

\* the rounding worked out once for each known amount
RoundMemo == {<<k, RoundDouble(k)>> : k \in KnownAmounts}

MathRound(v) ==
    IF ToNumber(v).t # "number" THEN NaN
    ELSE IF ToNumber(v).k \in KnownAmounts
         THEN Num(Lookup(RoundMemo, ToNumber(v).k))
         ELSE Num(RoundDouble(ToNumber(v).k))

TOLERANCE == DecToDouble(1)     \* the literal 0.0001

\* Math.abs(x - y) < 0.0001 for the doubles nearest to x / 10^4 and y / 10^4
WithinTolerance(x, y) ==
    DoubleLess(AbsDiff(DecToDouble(x), DecToDouble(y)), TOLERANCE)

\* the comparison worked out once for each pair of the known amounts
ToleranceMemo == {<<p, WithinTolerance(p[1], p[2])>> :
                     p \in KnownAmounts \X KnownAmounts}

\* the comparison without the tolerance: paidAmount === order.amount
AmountCloseExact(paidAmount, amount) ==
    /\ paidAmount.t = "number"
    /\ amount.t = "number"
    /\ paidAmount.k = amount.k

\* Math.abs(paidAmount - order.amount) < 0.0001
AmountClose(paidAmount, amount) ==
    /\ paidAmount.t = "number"
    /\ amount.t = "number"
    /\ IF paidAmount.k \in KnownAmounts /\ amount.k \in KnownAmounts
       THEN Lookup(ToleranceMemo, <<paidAmount.k, amount.k>>)
       ELSE WithinTolerance(paidAmount.k, amount.k)

\* String.prototype.toUpperCase on the currency spellings that occur
ToUpperCase(s) == CASE s = "usd" -> "USD"
                    [] s = "khr" -> "KHR"
                    [] s = "eur" -> "EUR"
                    [] OTHER -> s

\* String.prototype.includes for a one-character needle; a string that is
\* searched is held as its sequence of characters
Includes(chars, c) == \E i \in 1..Len(chars) : chars[i] = c

\* -------------------------------------------------------------- order ids
DayStamp == "20241101"      \* the calendar day the bounded clock runs in
SecondsPerMinute == 60
MinutesPerHour == 60

\* String(n).padStart(w, "0") for n < 1000
Digits(n) == IF n < 10 THEN 1 ELSE IF n < 100 THEN 2 ELSE 3
PadStart(n, w) == IF w - Digits(n) >= 2 THEN "00" \o ToString(n)
                  ELSE IF w - Digits(n) = 1 THEN "0" \o ToString(n)
                  ELSE ToString(n)

\* generateOrderId at second `sec` of the day, with Math.floor(Math.random()
\* * 1000) = rand
generateOrderId(sec, rand) ==
    "CAFE-" \o DayStamp
            \o PadStart(sec \div (SecondsPerMinute * MinutesPerHour), 2)
            \o PadStart((sec \div SecondsPerMinute) % MinutesPerHour, 2)
            \o PadStart(sec % SecondsPerMinute, 2)
            \o "-" \o PadStart(rand, 3)

\* ------------------------------------------------------------------ state
VARIABLES
    variant,            \* which of the three services is running
    BAKONG_TOKEN,       \* process.env.BAKONG_TOKEN || ""
    BAKONG_ACCOUNT_ID,  \* process.env.BAKONG_ACCOUNT_ID || "", as characters
    now,                \* the wall clock, in seconds of the day
    objs,               \* the heap: the objects a handler can come to hold
    ORDERS,             \* orderId -> index into objs of the object stored
    inflight,           \* handlers suspended at an await
    resp,               \* the response sent by the last step, if any
    paidSeen,           \* order ids for which a status check has answered PAID
    encoded,            \* how many payloads the codec has produced
    streak              \* the last status check answered, while no other
                        \* request has been served since

vars == <<variant, BAKONG_TOKEN, BAKONG_ACCOUNT_ID, now,
          objs, ORDERS, inflight, resp, paidSeen, encoded, streak>>

config == <<variant, BAKONG_TOKEN, BAKONG_ACCOUNT_ID>>

Variants == {"server", "part_002", "part_003"}
PLACEHOLDER_TOKEN == "YOUR_BAKONG_API_TOKEN_HERE"
DEFAULT_CURRENCY == "USD"    \* (process.env.CURRENCY || "USD").toUpperCase()
MERCHANT_NAME == "CVG Cafe"
MERCHANT_CITY == "Phnom Penh"
MERCHANT_CATEGORY == "5999"
ExpirySeconds == 600    \* 10 * 60 * 1000 ms
Absent == "<absent>"    \* a field the JSON object does not have
Null == [t |-> "null"]

\* inputs of the requests
\* req.body of the create requests: { amount, currency }
Body(amount, currency) == [amount |-> amount, currency |-> currency]
BadBodies == {Body(Undefined, Absent), Body(StrText, Absent),
              Body(Num(0), Absent), Body(Num(-30000), Absent)}
Bodies == BadBodies \cup {Body(Num(50000), Absent), Body(Num(50000), "EUR")}
RielBodies == {Body(Num(0), "khr"), Body(Num(107000), "khr"),
               Body(Num(4000), "khr")}
CodecOutcomes == {"ok", "error", "errorNoMessage"}
\* data.data of a settlement record: { amount, currency }
Paid(amount, currency) == [amount |-> amount, currency |-> currency]
Settlements == {Paid(StrDec(50000), "USD"), Paid(StrDec(50001), "USD"),
                Paid(StrDec(50100), "USD"), Paid(StrDec(50000), "KHR")}
AllIds == {generateOrderId(t, r) : t \in 0..MaxClock, r \in 0..MaxRand}

\* ORDERS is a plain object ({}): a property name it inherits from
\* Object.prototype is found by ORDERS[name] although nothing was stored
\* under it.  ORDERS.constructor is the function Object, which has none of
\* the properties of an order.
InheritedIds == {"constructor"}
CheckIds == AllIds \cup InheritedIds
ObjectConstructor == [orderId |-> Absent, amount |-> Undefined,
                      currency |-> Absent, md5 |-> Undefined,
                      status |-> Absent]
Builtin == 1    \* the place of the function Object in the heap

\* ORDERS[orderId], as a place in the heap; 0 stands for undefined
Get(store, orderId) ==
    IF orderId \in DOMAIN store THEN store[orderId]
    ELSE IF orderId \in InheritedIds THEN Builtin ELSE 0

\* what the settlement authority can answer to check_transaction_by_md5
Answers ==
    {[kind |-> "reject"], [kind |-> "httpError"], [kind |-> "empty"],
     [kind |-> "notFound"]}
    \cup {[kind |-> "found", amount |-> p.amount, currency |-> p.currency] :
            p \in Settlements}

Free == [pc |-> "free"]
Untracked == [on |-> FALSE, kept |-> FALSE]
NoStreak == [on |-> FALSE, kept |-> TRUE]
NoAnswer == [kind |-> "none"]

\* A response: the HTTP status and the fields of the JSON body, together with
\* what the handler did on the way: whether it called the codec, whether it
\* called the settlement authority, the answer it got from it, and whether
\* it assigned order.status.
NoResponse == [op |-> "none", code |-> 0, ok |-> FALSE, error |-> Absent,
               orderId |-> Absent, status |-> Absent, amount |-> Undefined,
               currency |-> Absent, md5 |-> Absent, note |-> Absent,
               detail |-> Absent, extCall |-> FALSE, answer |-> NoAnswer,
               codecCall |-> FALSE, wrote |-> FALSE]

Boot ==
    /\ variant \in Variants
    /\ BAKONG_TOKEN \in {"", PLACEHOLDER_TOKEN, "token"}
    /\ BAKONG_ACCOUNT_ID \in {<<>>, <<"i", "d">>, <<"i", "d", "@", "b">>}
    /\ now = 0
    /\ objs = <<ObjectConstructor>>
    /\ ORDERS = [i \in {} |-> 0]
    /\ inflight = [s \in 1..MaxInFlight |-> Free]
    /\ resp = NoResponse
    /\ paidSeen = {}
    /\ encoded = 0

Init == Boot /\ streak = Untracked

\* ------------------------------------------------ consecutive status checks
\* A run of status checks of one id that the service has served one after
\* the other with no step of any other request from the start of the first:
\* which id, how many have answered (1 or 2 for more), what the authority
\* answered to the last and what the client got; and, while the next of them
\* waits for the authority, in which slot.
Answered(r, n) ==
    [on |-> TRUE, open |-> FALSE, slot |-> 0, nth |-> n,
     orderId |-> r.orderId, answer |-> r.answer, status |-> r.status,
     code |-> r.code]

\* the slot in which a status check has just suspended, 0 if none
Suspended ==
    LET S == {s \in 1..MaxInFlight :
                inflight[s] = Free /\ inflight'[s].pc = "check"}
    IN  IF S = {} THEN 0 ELSE CHOOSE s \in S : TRUE

\* the check that answers in this step is the next of the run
Continues ==
    /\ streak.on
    /\ resp'.op = "check"
    /\ resp'.orderId = streak.orderId
    /\ IF streak.open
       THEN inflight[streak.slot].pc = "check" /\ inflight'[streak.slot] = Free
       ELSE ~resp'.extCall

Follow ==
    IF resp'.op = "check"
    THEN IF Continues
         THEN Answered(resp', IF streak.nth = 0 THEN 1 ELSE 2)
         ELSE IF ~resp'.extCall THEN Answered(resp', 1) ELSE NoStreak
    ELSE IF Suspended # 0
    THEN IF streak.on /\ ~streak.open
            /\ streak.orderId = inflight'[Suspended].orderId
         THEN [streak EXCEPT !.open = TRUE, !.slot = Suspended]
         ELSE [on |-> TRUE, open |-> TRUE, slot |-> Suspended, nth |-> 0,
               orderId |-> inflight'[Suspended].orderId,
               answer |-> NoAnswer, status |-> Absent, code |-> 0]
    ELSE IF resp'.op = "none" /\ inflight' = inflight THEN streak
    ELSE NoStreak

\* every step keeps the history, where it is kept at all
Track == streak' = IF streak = Untracked THEN Untracked ELSE Follow

\* ------------------------------------------------- POST /api/create-khqr
\* `amount` after the handler's coercion
ParsedAmount(v, raw) ==
    IF v = "part_003" THEN raw ELSE ToNumber(OrElse(raw, Num(0)))

\* if (!amount || amount <= 0)
AmountRejected(v, raw) ==
    \/ ~Truthy(ParsedAmount(v, raw))
    \/ LessEqZero(ParsedAmount(v, raw))

\* (currency || DEFAULT_CURRENCY).toUpperCase()
CurrencyCode(currency, default) ==
    ToUpperCase(IF currency = Absent THEN default ELSE currency)

\* if (!["USD", "KHR"].includes(cur)) -- only part_003 has the test
CurrencyRejected(v, cur) == v = "part_003" /\ cur \notin {"USD", "KHR"}

\* if (!BAKONG_ACCOUNT_ID || !BAKONG_ACCOUNT_ID.includes("@"))
AccountRejected(account) == account = <<>> \/ ~Includes(account, "@")

\* currencyCode === "KHR" ? khqrData.currency.khr : khqrData.currency.usd
KhqrCurrency(cur) == IF cur = "KHR" THEN "KHR" ELSE "USD"

\* the amount encoded and stored
KhqrAmount(v, cur, amount) ==
    IF v = "part_003"
    THEN IF cur = "KHR" THEN MathRound(amount) ELSE ToNumber(amount)
    ELSE amount

\* new IndividualInfo(bakongAccountID, merchantName, merchantCity, optional)
IndividualInfo(a1, a2, a3, a4) ==
    [accountID |-> a1, merchantName |-> a2, merchantCity |-> a3,
     optional |-> a4]

OptionalData(cur, amount, orderId, t) ==
    [t |-> "object", currency |-> KhqrCurrency(cur), amount |-> amount,
     billNumber |-> orderId, expirationTimestamp |-> t + ExpirySeconds]

\* what the handler hands to the codec
CodecInput(v, account, cur, amount, orderId, t) ==
    IF v = "server"
    THEN \* five arguments: the currency takes the place of the name, and
         \* the city the place of the optional data
         IndividualInfo(account, KhqrCurrency(cur), MERCHANT_NAME,
                        [t |-> "string", s |-> MERCHANT_CITY])
    ELSE IndividualInfo(account, MERCHANT_NAME, MERCHANT_CITY,
                        OptionalData(cur, amount, orderId, t))

\* the codec's result: the md5 stands for the payload it was computed from
CodecResult(outcome, input) ==
    IF outcome = "ok"
    THEN [code |-> 0, message |-> Absent, data |-> [qr |-> input, md5 |-> input]]
    ELSE [code |-> 1,
          message |-> IF outcome = "error" THEN "diagnostic" ELSE Absent,
          data |-> Null]

\* if (!result || result.status.code !== 0 || !result.data), and in part_003
\* if (!khqrString)
CodecFailed(v, result) ==
    IF v = "part_003" THEN result.data = Null
    ELSE result.code # 0 \/ result.data = Null

ErrorResponse(op, code, error) ==
    [NoResponse EXCEPT !.op = op, !.code = code, !.error = error]

FreeSlots == {s \in 1..MaxInFlight : inflight[s] = Free}

\* ---------------------------------------------------------------- the heap
\* a status check suspended at axios.post, answered later or never
Holds(slot) == slot.pc \in {"check", "hung"}

\* An order object lives as long as the store or a suspended status check
\* (its `order` constant) refers to it; an object nothing refers to is
\* collected, and the survivors keep their order of allocation.  The
\* function Object is always there.
Reachable(store, slots) ==
    {Builtin}
    \cup {store[i] : i \in DOMAIN store}
    \cup {slots[s].order : s \in {u \in DOMAIN slots : Holds(slots[u])}}

Rank(R, j) == Cardinality({r \in R : r <= j})

CollectObjs(heap, R) ==
    [n \in 1..Cardinality(R) |-> heap[CHOOSE j \in R : Rank(R, j) = n]]

CollectStore(store, R) == [i \in DOMAIN store |-> Rank(R, store[i])]

CollectSlots(slots, R) ==
    [s \in DOMAIN slots |->
        IF Holds(slots[s])
        THEN [slots[s] EXCEPT !.order = Rank(R, slots[s].order)]
        ELSE slots[s]]

\* the handler up to `await QRCode.toDataURL(...)`
CreateBegin(body, rand, outcome) ==
    LET v       == variant
        raw     == body.amount
        amount  == ParsedAmount(v, raw)
        cur     == CurrencyCode(body.currency, DEFAULT_CURRENCY)
        orderId == generateOrderId(now, rand)
        amt     == KhqrAmount(v, cur, amount)
        input   == CodecInput(v, BAKONG_ACCOUNT_ID, cur, amt, orderId, now)
        result  == CodecResult(outcome, input)
    IN  /\ UNCHANGED <<config, now, objs, ORDERS, paidSeen>>
        /\ IF AmountRejected(v, raw)
           THEN /\ resp' = ErrorResponse("create", 400, "Invalid amount")
                /\ UNCHANGED <<inflight, encoded>>
           ELSE IF CurrencyRejected(v, cur)
           THEN /\ resp' = ErrorResponse("create", 400,
                                         "Currency must be USD or KHR")
                /\ UNCHANGED <<inflight, encoded>>
           ELSE IF AccountRejected(BAKONG_ACCOUNT_ID)
           THEN /\ resp' = ErrorResponse("create", 500,
                                         "BAKONG_ACCOUNT_ID is not set")
                /\ UNCHANGED <<inflight, encoded>>
           ELSE IF CodecFailed(v, result)
           THEN /\ resp' = [ErrorResponse("create", 500,
                                          "Failed to generate KHQR")
                              EXCEPT !.codecCall = TRUE,
                                     !.detail = IF v = "part_002"
                                                THEN result.message
                                                ELSE Absent]
                /\ UNCHANGED <<inflight, encoded>>
           ELSE /\ FreeSlots # {}
                /\ encoded < MaxOrders
                /\ encoded' = encoded + 1
                /\ inflight' =
                     [inflight EXCEPT ![CHOOSE s \in FreeSlots :
                                           \A u \in FreeSlots : s <= u] =
                        [pc |-> "create", orderId |-> orderId, amount |-> amt,
                         currency |-> cur, md5 |-> result.data.md5]]
                /\ resp' = NoResponse
        /\ Track

\* ORDERS[orderId] = {...}
Register(store, orderId, idx) ==
    [i \in DOMAIN store \cup {orderId} |->
        IF i = orderId THEN idx ELSE store[i]]

\* the handler after the await: store the order, answer
CreateStore(s) ==
    /\ inflight[s].pc = "create"
    /\ LET heap  == Append(objs, [orderId |-> inflight[s].orderId,
                                  amount |-> inflight[s].amount,
                                  currency |-> inflight[s].currency,
                                  md5 |-> inflight[s].md5,
                                  status |-> "PENDING"])
           store == Register(ORDERS, inflight[s].orderId, Len(objs) + 1)
           slots == [inflight EXCEPT ![s] = Free]
           R     == Reachable(store, slots)
       IN  /\ objs' = CollectObjs(heap, R)
           /\ ORDERS' = CollectStore(store, R)
           /\ inflight' = CollectSlots(slots, R)
    /\ resp' = [NoResponse EXCEPT !.op = "create", !.code = 200, !.ok = TRUE,
                                  !.orderId = inflight[s].orderId,
                                  !.amount = inflight[s].amount,
                                  !.currency = inflight[s].currency,
                                  !.md5 = IF variant = "part_002" THEN Absent
                                          ELSE inflight[s].md5,
                                  !.codecCall = TRUE]
    /\ UNCHANGED <<config, now, paidSeen, encoded>>
    /\ Track

\* QRCode.toDataURL rejects: the catch block answers 500, nothing is stored
CreateRasterFail(s) ==
    /\ inflight[s].pc = "create"
    /\ resp' = [ErrorResponse("create", 500, "Server error")
                  EXCEPT !.codecCall = TRUE]
    /\ inflight' = [inflight EXCEPT ![s] = Free]
    /\ UNCHANGED <<config, now, objs, ORDERS, paidSeen, encoded>>
    /\ Track

\* --------------------------------------- GET /api/check-payment/:orderId
\* the test without the placeholder: if (!BAKONG_TOKEN)
TokenMissingEmpty(token) == token = ""

\* if (!BAKONG_TOKEN || BAKONG_TOKEN === "YOUR_BAKONG_API_TOKEN_HERE")
TokenMissing(token) == token = "" \/ token = PLACEHOLDER_TOKEN

\* axios rejects when only a transport failure counts
RejectsTransport(answer) == answer.kind = "reject"

\* axios.post rejects: no response came (transport failure), or one with a
\* status outside 2xx
Rejects(answer) == answer.kind \in {"reject", "httpError"}

\* the body of the answer
ResponseData(answer) ==
    CASE answer.kind = "empty" -> Null
      [] answer.kind \in {"notFound", "httpError"} ->
            [responseCode |-> 1, data |-> Null]
      [] OTHER -> [responseCode |-> 0,
                   data |-> [amount |-> answer.amount,
                             currency |-> answer.currency]]

\* data && data.responseCode === 0 && data.data
Settled(data) == data # Null /\ data.responseCode = 0 /\ data.data # Null

\* the test each variant applies to a settled answer before order.status =
\* "PAID"; part_002 applies none
Reconciled(v, data, order) ==
    IF v = "part_002" THEN TRUE
    ELSE /\ data.data.currency = order.currency
         /\ AmountClose(ToNumber(data.data.amount), order.amount)

\* the `error` of the catch block's answer
CheckErrorText(v) ==
    CASE v = "server" -> "Server error while checking payment"
      [] v = "part_002" -> "Server error"
      [] v = "part_003" -> "Check payment error"

\* part_003 reads data.responseCode without testing data first
DataFault(v, data) == v = "part_003" /\ data = Null

\* the handler up to `await axios.post(...)`
CheckBegin(orderId) ==
    /\ UNCHANGED <<config, now, objs, ORDERS, encoded>>
    /\ IF Get(ORDERS, orderId) = 0
       THEN /\ resp' = [ErrorResponse("check", 404, "Order not found")
                          EXCEPT !.orderId = orderId]
            /\ UNCHANGED <<inflight, paidSeen>>
       ELSE IF objs[Get(ORDERS, orderId)].status = "PAID"
       THEN /\ resp' = [NoResponse EXCEPT
                          !.op = "check", !.code = 200, !.ok = TRUE,
                          !.orderId = orderId, !.status = "PAID",
                          !.amount = objs[Get(ORDERS, orderId)].amount,
                          !.currency = objs[Get(ORDERS, orderId)].currency]
            /\ paidSeen' = paidSeen \cup {orderId}
            /\ UNCHANGED inflight
       ELSE IF TokenMissing(BAKONG_TOKEN)
       THEN /\ resp' = [NoResponse EXCEPT
                          !.op = "check", !.code = 200, !.ok = TRUE,
                          !.orderId = orderId, !.status = "PENDING",
                          !.note = "BAKONG_TOKEN not set"]
            /\ UNCHANGED <<inflight, paidSeen>>
       ELSE /\ FreeSlots # {}
            /\ inflight' =
                 [inflight EXCEPT ![CHOOSE s \in FreeSlots :
                                       \A u \in FreeSlots : s <= u] =
                    [pc |-> "check", orderId |-> orderId,
                     order |-> Get(ORDERS, orderId)]]
            /\ resp' = NoResponse
            /\ UNCHANGED paidSeen
    /\ Track

\* the answer built before the assignment: the status as it was
ReportedStale(before, after) == before

\* status: order.status in the answer, read after the assignment
ReportedStatus(before, after) == after

\* an assignment that also drops the fingerprint it no longer needs
SetStatusDropping(order, status) ==
    [order EXCEPT !.status = status, !.md5 = Undefined]

\* order.status = "PAID": the one field the handler assigns
SetStatus(order, status) == [order EXCEPT !.status = status]

\* the handler after the await, for each way the call can end
CheckResume(s, answer) ==
    LET o     == inflight[s].order
        order == objs[o]
        data  == ResponseData(answer)
        slots == [inflight EXCEPT ![s] = Free]
        R     == Reachable(ORDERS, slots)
    IN  /\ inflight[s].pc = "check"
        /\ inflight' = CollectSlots(slots, R)
        /\ ORDERS' = CollectStore(ORDERS, R)
        /\ UNCHANGED <<config, now, encoded>>
        /\ IF Rejects(answer) \/ DataFault(variant, data)
           THEN /\ resp' = [ErrorResponse("check", 500,
                                          CheckErrorText(variant))
                              EXCEPT !.orderId = inflight[s].orderId,
                                     !.extCall = TRUE, !.answer = answer]
                /\ objs' = CollectObjs(objs, R)
                /\ UNCHANGED paidSeen
           ELSE LET paid   == Settled(data) /\ Reconciled(variant, data, order)
                    status == IF paid THEN "PAID" ELSE order.status
                IN  /\ objs' = CollectObjs(
                                  [objs EXCEPT ![o] = SetStatus(order, status)],
                                  R)
                    /\ resp' = [NoResponse EXCEPT
                                  !.op = "check", !.code = 200, !.ok = TRUE,
                                  !.orderId = inflight[s].orderId,
                                  !.status = ReportedStatus(order.status,
                                                            status),
                                  !.amount = IF variant = "part_003"
                                             THEN Undefined ELSE order.amount,
                                  !.currency = IF variant = "part_003"
                                               THEN Absent ELSE order.currency,
                                  !.extCall = TRUE, !.answer = answer,
                                  !.wrote = paid]
                    /\ paidSeen' = IF status = "PAID"
                                   THEN paidSeen \cup {inflight[s].orderId}
                                   ELSE paidSeen
        /\ Track

\* the wall clock moves on to the next second
Tick ==
    /\ now < MaxClock
    /\ now' = now + 1
    /\ resp' = NoResponse
    /\ UNCHANGED <<config, objs, ORDERS, inflight, paidSeen, encoded>>
    /\ Track

\* the steps of the service when the create requests carry a body of B
NextOver(B) ==
    \/ \E body \in B, rand \in 0..MaxRand, outcome \in CodecOutcomes :
            CreateBegin(body, rand, outcome)
    \/ \E s \in 1..MaxInFlight : CreateStore(s)
    \/ \E s \in 1..MaxInFlight : CreateRasterFail(s)
    \/ \E orderId \in CheckIds : CheckBegin(orderId)
    \/ \E s \in 1..MaxInFlight, answer \in Answers : CheckResume(s, answer)
    \/ Tick

Next == NextOver(Bodies)

Spec == Init /\ [][Next]_vars

\* the service taking orders in riel
NextRiel == NextOver(RielBodies)

SpecRiel == Init /\ [][NextRiel]_vars

\* ------------------------------------------------- an authority that hangs
\* The authority accepts the request of the check suspended in slot s and
\* never answers it.  axios.post is called without a `timeout`, so its
\* promise never settles and the handler stays at the await.
CallLost(s) ==
    /\ inflight[s].pc = "check"
    /\ inflight' = [inflight EXCEPT ![s].pc = "hung"]
    /\ resp' = NoResponse
    /\ UNCHANGED <<config, now, objs, ORDERS, paidSeen, encoded>>
    /\ Track

PlainBodies == {Body(Num(50000), Absent)}

NextLive ==
    \/ NextOver(PlainBodies)
    \/ \E s \in 1..MaxInFlight : CallLost(s)

\* a handler whose awaited promise can settle is resumed by the event loop
Fairness ==
    \A s \in 1..MaxInFlight :
        /\ WF_vars(CreateStore(s) \/ CreateRasterFail(s))
        /\ WF_vars(\E answer \in Answers : CheckResume(s, answer))

SpecLive == Init /\ [][NextLive]_vars /\ Fairness

\* the service with the history of consecutive status checks kept
InitRecheck == Boot /\ streak = NoStreak

NextRecheck == NextOver(PlainBodies)

SpecRecheck == InitRecheck /\ [][NextRecheck]_vars

\* ------------------------------------------------------------ properties
Slots == 1..MaxInFlight
Stored(i) == objs[ORDERS[i]]            \* the ledger entry of order id i

\* the step in which the create handler suspended in slot s resumes
CreateReturns(s) == inflight[s].pc = "create" /\ inflight'[s].pc # "create"

\* the step in which the status check suspended in slot s resumes
CheckReturns(s) == inflight[s].pc = "check" /\ resp'.op = "check"
                   /\ resp'.extCall /\ inflight'[s] = Free

\* C1: once the ledger entry stored under an order id is PAID, the entry
\* stored under that id is PAID in every later state.
C1_StatusMonotonic ==
    [][\A i \in DOMAIN ORDERS :
         Stored(i).status = "PAID" => objs'[ORDERS'[i]].status = "PAID"]_vars

\* C2: a ledger entry goes from PENDING to PAID only in a status check whose
\* answer is a settlement record with the entry's currency and an amount
\* within 0.0001 of the entry's amount.
C2_SettlementCompared ==
    [][\A i \in DOMAIN ORDERS :
         (Stored(i).status = "PENDING" /\ objs'[ORDERS'[i]].status = "PAID")
         => /\ resp'.op = "check"
            /\ resp'.answer.kind = "found"
            /\ resp'.answer.currency = Stored(i).currency
            /\ AmountClose(ToNumber(resp'.answer.amount), Stored(i).amount)]_vars

\* C3: a status check that finds the order PAID answers PAID with the order's
\* amount and currency and calls nobody; and once a status check has answered
\* PAID for an order id, every later status check for it does the same.
C3_PaidFastPath ==
    [][\A i \in DOMAIN ORDERS :
         (CheckBegin(i) /\ (Stored(i).status = "PAID" \/ i \in paidSeen))
         => /\ resp'.code = 200
            /\ resp'.status = "PAID"
            /\ resp'.amount = Stored(i).amount
            /\ resp'.currency = Stored(i).currency
            /\ ~resp'.extCall
            /\ inflight' = inflight]_vars

\* C4: a status check of a registered PENDING order that is answered with a
\* settlement record of the order's currency and amount answers PAID and
\* leaves the ledger entry PAID (so that the next check takes the fast path).
C4_Reconciles ==
    [][\A s \in Slots :
         (/\ CheckReturns(s)
          /\ objs[inflight[s].order].status = "PENDING"
          /\ resp'.answer.kind = "found"
          /\ resp'.answer.currency = objs[inflight[s].order].currency
          /\ ToNumber(resp'.answer.amount) = objs[inflight[s].order].amount)
         => /\ resp'.code = 200
            /\ resp'.status = "PAID"
            /\ objs'[ORDERS'[inflight[s].orderId]].status = "PAID"]_vars

\* C5: where the handler compares amounts (server.js, part_003), a status
\* check of a PENDING order of 5.00 answered with a settlement record of the
\* order's currency answers PAID when the settled amount is 5.0001 and
\* PENDING when it is 5.01.
C5_ToleranceBoundary ==
    [][\A s \in Slots :
         (/\ variant # "part_002"
          /\ CheckReturns(s)
          /\ objs[inflight[s].order].status = "PENDING"
          /\ objs[inflight[s].order].amount = Num(50000)
          /\ resp'.answer.kind = "found"
          /\ resp'.answer.currency = objs[inflight[s].order].currency)
         => /\ resp'.answer.amount = StrDec(50001) => resp'.status = "PAID"
            /\ resp'.answer.amount = StrDec(50100) => resp'.status = "PENDING"]_vars

\* a check of an order of 5.00 has just answered PAID on a settlement of 5.0001
C5_Witness ==
    /\ variant # "part_002"
    /\ resp.op = "check"
    /\ resp.answer.kind = "found"
    /\ resp.answer.amount = StrDec(50001)
    /\ resp.status = "PAID"
    /\ resp.orderId \in DOMAIN ORDERS
    /\ Stored(resp.orderId).amount = Num(50000)
    /\ Stored(resp.orderId).status = "PAID"

\* C6: a create that resumes with an order id the ledger already holds is
\* refused and leaves the entry stored under that id as it was.
C6_DuplicateRefused ==
    [][\A s \in Slots :
         (CreateReturns(s) /\ inflight[s].orderId \in DOMAIN ORDERS)
         => /\ ~resp'.ok
            /\ objs'[ORDERS'[inflight[s].orderId]] = Stored(inflight[s].orderId)]_vars

\* C7: the order id in the answer of a successful create is none of the ids
\* of the earlier successful creates, which are the ids the ledger holds.
C7_FreshId ==
    [][(resp'.op = "create" /\ resp'.ok) => resp'.orderId \notin DOMAIN ORDERS]_vars

\* C8: a create whose amount is 0, negative, missing or not a number is
\* answered 400 without calling the codec and without touching the ledger.
C8_InvalidAmount ==
    [][\A body \in BadBodies :
         (\E rand \in 0..MaxRand, outcome \in CodecOutcomes :
              CreateBegin(body, rand, outcome))
         => /\ resp'.code = 400
            /\ ~resp'.codecCall
            /\ UNCHANGED <<objs, ORDERS, inflight>>]_vars

\* C9: every order in the ledger has currency USD or KHR.
C9_SupportedCurrency ==
    \A i \in DOMAIN ORDERS : Stored(i).currency \in {"USD", "KHR"}

\* C10: every KHR order in the ledger has a whole amount.
C10_WholeRiel ==
    \A i \in DOMAIN ORDERS :
        Stored(i).currency = "KHR"
        => Stored(i).amount.t = "number" /\ Stored(i).amount.k % DecimalScale = 0

\* C11: every order in the ledger has an amount that is a number greater
\* than zero, rounded or not.
C11_PositiveAmount ==
    \A i \in DOMAIN ORDERS :
        Stored(i).amount.t = "number" /\ Stored(i).amount.k > 0

\* the amount and the currency the codec finds in the optional data of what
\* it was handed; a string in that position carries neither
Encoded(input) ==
    IF input.optional.t = "string"
    THEN [amount |-> Undefined, currency |-> Absent]
    ELSE [amount |-> input.optional.amount,
          currency |-> input.optional.currency]

\* C12: a create of a numeric amount in USD or KHR that succeeds adds one
\* entry to the ledger, under a new id, with status PENDING and with the
\* amount and currency that were handed to the codec.
C12_StoredAsEncoded ==
    [][\A s \in Slots :
         (/\ CreateReturns(s)
          /\ resp'.ok
          /\ inflight[s].amount.t = "number"
          /\ inflight[s].currency \in {"USD", "KHR"})
         => /\ inflight[s].orderId \notin DOMAIN ORDERS
            /\ DOMAIN ORDERS' = DOMAIN ORDERS \cup {inflight[s].orderId}
            /\ objs'[ORDERS'[inflight[s].orderId]].status = "PENDING"
            /\ objs'[ORDERS'[inflight[s].orderId]].amount
                 = Encoded(inflight[s].md5).amount
            /\ objs'[ORDERS'[inflight[s].orderId]].currency
                 = Encoded(inflight[s].md5).currency]_vars

\* C13: with an empty or placeholder token, a status check of a registered
\* order that is not PAID answers 200 PENDING with a note, calls nobody and
\* changes nothing; and no order is ever PAID.
C13_DegradedMode ==
    /\ [](BAKONG_TOKEN \in {"", PLACEHOLDER_TOKEN}
          => \A o \in DOMAIN objs : objs[o].status # "PAID")
    /\ [][\A i \in DOMAIN ORDERS :
            (/\ CheckBegin(i)
             /\ BAKONG_TOKEN \in {"", PLACEHOLDER_TOKEN}
             /\ Stored(i).status # "PAID")
            => /\ resp'.code = 200
               /\ resp'.ok
               /\ resp'.status = "PENDING"
               /\ resp'.note # Absent
               /\ ~resp'.extCall
               /\ UNCHANGED <<objs, ORDERS, inflight>>]_vars

\* a check under the placeholder token has just answered PENDING with the note
C13_Witness ==
    /\ BAKONG_TOKEN = PLACEHOLDER_TOKEN
    /\ resp.op = "check"
    /\ resp.orderId \in DOMAIN ORDERS
    /\ resp.status = "PENDING"
    /\ resp.note # Absent
    /\ ~resp.extCall

\* C14: a status check for an id under which no order is stored answers 404,
\* calls nobody and changes nothing.
C14_OrderNotFound ==
    [][\A orderId \in CheckIds \ DOMAIN ORDERS :
         CheckBegin(orderId)
         => /\ resp'.code = 404
            /\ ~resp'.ok
            /\ ~resp'.extCall
            /\ UNCHANGED <<objs, ORDERS, inflight>>]_vars

\* C15: a status check whose call to the settlement authority ends in a
\* transport failure or in a response outside 2xx answers 500 with the fixed
\* message and nothing else, and leaves every ledger entry as it was.
C15_ReconciliationFailure ==
    [][\A s \in Slots :
         (CheckReturns(s) /\ resp'.answer.kind \in {"reject", "httpError"})
         => /\ resp'.code = 500
            /\ ~resp'.ok
            /\ resp'.error = CheckErrorText(variant)
            /\ resp'.detail = Absent
            /\ resp'.status = Absent
            /\ resp'.amount = Undefined
            /\ resp'.currency = Absent
            /\ DOMAIN ORDERS' = DOMAIN ORDERS
            /\ \A i \in DOMAIN ORDERS : objs'[ORDERS'[i]] = Stored(i)]_vars

\* a check of a PENDING order has just answered 500 on a response outside 2xx
C15_Witness ==
    /\ resp.op = "check"
    /\ resp.code = 500
    /\ resp.answer.kind = "httpError"
    /\ resp.orderId \in DOMAIN ORDERS
    /\ Stored(resp.orderId).status = "PENDING"

\* C16: every status check that has called the settlement authority
\* eventually sends its response, whether the authority answers or not.
C16_CheckAnswers ==
    \A s \in Slots :
        (inflight[s].pc \in {"check", "hung"}) ~> (inflight[s] = Free)

\* C17: a status check that resumes with a settlement of the order's
\* currency and amount and finds the order already PAID, set by a check that
\* was in flight with it, answers PAID and does not assign the status again.
C17_SingleTransition ==
    [][\A s \in Slots :
         (/\ CheckReturns(s)
          /\ objs[inflight[s].order].status = "PAID"
          /\ resp'.answer.kind = "found"
          /\ resp'.answer.currency = objs[inflight[s].order].currency
          /\ ToNumber(resp'.answer.amount) = objs[inflight[s].order].amount)
         => /\ resp'.status = "PAID"
            /\ ~resp'.wrote]_vars

\* C18: a status check of a registered order that answers 200 reports a
\* status and the amount and currency stored for the order.
C18_ResponseFields ==
    (resp.op = "check" /\ resp.ok /\ resp.orderId \in DOMAIN ORDERS)
    => /\ resp.status \in {"PENDING", "PAID"}
       /\ resp.amount = Stored(resp.orderId).amount
       /\ resp.currency = Stored(resp.orderId).currency

\* C19: of two status checks of a registered id served one after the other,
\* with no step of another request from the start of the first to the end of
\* the second, the second, given the answer the first got from the authority
\* if it asks at all, reports the same status and leaves every ledger entry
\* as the first left it.
C19_IdempotentRecheck ==
    [][(/\ Continues
        /\ streak.nth > 0
        /\ streak.orderId \in DOMAIN ORDERS
        /\ resp'.extCall => resp'.answer = streak.answer)
       => /\ resp'.status = streak.status
          /\ resp'.code = streak.code
          /\ DOMAIN ORDERS' = DOMAIN ORDERS
          /\ \A i \in DOMAIN ORDERS : objs'[ORDERS'[i]] = Stored(i)]_vars

\* the second of two such checks has just answered PENDING, as the first did,
\* on the same settlement record of another amount
C19_Witness ==
    /\ streak.on
    /\ streak.nth = 2
    /\ resp.op = "check"
    /\ resp.orderId \in DOMAIN ORDERS
    /\ resp.extCall
    /\ resp.answer.kind = "found"
    /\ resp.status = "PENDING"

\* C20: a create that is refused for its amount, for its currency or for the
\* merchant account is answered with a 4xx status and an error message, and
\* stores nothing.
C20_ValidationIsClientError ==
    [][(/\ resp'.op = "create"
        /\ resp'.error \in {"Invalid amount", "Currency must be USD or KHR",
                            "BAKONG_ACCOUNT_ID is not set"})
       => /\ resp'.code \in 400..499
          /\ ~resp'.ok
          /\ UNCHANGED <<objs, ORDERS>>]_vars

\* C21: a create whose codec call reports a status other than success is
\* answered with an error, stores nothing, and its answer carries the
\* message of the codec's status whenever the codec gave one.
C21_EncodingFailure ==
    [][\A body \in Bodies, rand \in 0..MaxRand,
          outcome \in CodecOutcomes \ {"ok"} :
         (CreateBegin(body, rand, outcome) /\ resp'.codecCall)
         => /\ resp'.op = "create"
            /\ ~resp'.ok
            /\ resp'.code \in 400..599
            /\ resp'.error # Absent
            /\ UNCHANGED <<objs, ORDERS, inflight>>
            /\ LET message == CodecResult(outcome, Null).message
               IN  message # Absent => resp'.detail = message]_vars

\* a step of the status check handler, before or after its await
CheckStep ==
    \/ \E orderId \in CheckIds : CheckBegin(orderId)
    \/ \E s \in Slots, answer \in Answers : CheckResume(s, answer)

\* the fields of a ledger entry that are fixed when it is created
Fixed(order) == [orderId |-> order.orderId, amount |-> order.amount,
                 currency |-> order.currency, md5 |-> order.md5]

\* C22: a step of a status check leaves the ledger with the same ids, every
\* entry with its id, amount, currency and md5, and every entry other than
\* the one of the id it answers for with its status too; and no step of any
\* handler takes an id out of the ledger.
C22_ReconciliationFrame ==
    [][/\ DOMAIN ORDERS \subseteq DOMAIN ORDERS'
       /\ CheckStep
          => /\ DOMAIN ORDERS' = DOMAIN ORDERS
             /\ \A i \in DOMAIN ORDERS :
                  /\ Fixed(objs'[ORDERS'[i]]) = Fixed(Stored(i))
                  /\ i # resp'.orderId
                     => objs'[ORDERS'[i]] = Stored(i)]_vars

\* a status check has just set one of two stored orders to PAID while the
\* other is still PENDING
C22_Witness ==
    /\ resp.op = "check"
    /\ resp.wrote
    /\ resp.orderId \in DOMAIN ORDERS
    /\ Stored(resp.orderId).status = "PAID"
    /\ \E i \in DOMAIN ORDERS : Stored(i).status = "PENDING"

====
